---- MODULE Spec2Model ----
(***************************************************************************)
(* Model of src/script.js: a browser page that keeps a list of             *)
(* transactions in memory, mirrors it into localStorage, renders it into   *)
(* the DOM and toggles a light/dark theme.                                 *)
(*                                                                         *)
(* Strings the code inspects character by character (the form fields, the  *)
(* formatted currency) are sequences of one-character strings.  A JS       *)
(* number is a record [k |-> "num", v |-> n]; NaN and null are the records *)
(* NaN and Null.  A localStorage value is Absent (getItem gives null), a   *)
(* plain text, or a JSON text, the latter written as the array it denotes. *)
(***************************************************************************)
EXTENDS Integers, Sequences, FiniteSets, TLC

\* ---------------------------------------------------------------- bounds
\* Adds are accepted by the model only while the list is shorter than this.
MaxTx == 2

\* The values generateID returns here; 0..999999999 in the code.
IDs == {0, 1}

\* What the user can have typed into the form when it is submitted.
TitleTexts  == { <<>>, <<" ">>, <<"P">> }
AmountTexts == { <<>>, <<"1","0","0","0">>, <<"-","1","0","0","0">>, <<"0">>, <<"a">> }
TypeValues  == { "income", "expense" }
\* What new Date().toLocaleDateString() returns.
Dates == { "11/6/2026" }

\* ------------------------------------------------------------ JS values
Num(n) == [k |-> "num", v |-> n]
NaN    == [k |-> "nan", v |-> 0]
Null   == [k |-> "null", v |-> 0]

\* x > 0 and x < 0: NaN compares false, null converts to 0.
GtZero(x) == x.k = "num" /\ x.v > 0
LtZero(x) == x.k = "num" /\ x.v < 0

\* -x
Negate(x) == IF x.k = "num" THEN Num(0 - x.v) ELSE IF x.k = "null" THEN Num(0) ELSE NaN

\* Math.abs(x)
MathAbs(x) ==
    IF x.k = "num" THEN Num(IF x.v < 0 THEN 0 - x.v ELSE x.v)
    ELSE IF x.k = "null" THEN Num(0) ELSE NaN

\* ------------------------------------------------------------- strings
IsSpace(c) == c = " "

RECURSIVE TrimStart(_)
TrimStart(s) ==
    IF s # <<>> /\ IsSpace(Head(s)) THEN TrimStart(Tail(s)) ELSE s

RECURSIVE TrimEnd(_)
TrimEnd(s) ==
    IF s # <<>> /\ IsSpace(s[Len(s)]) THEN TrimEnd(SubSeq(s, 1, Len(s) - 1)) ELSE s

\* String.prototype.trim
trim(s) == TrimEnd(TrimStart(s))

DigitChars == <<"0","1","2","3","4","5","6","7","8","9">>
IsDigit(c) == \E i \in 1..10 : DigitChars[i] = c
DigitVal(c) == (CHOOSE i \in 1..10 : DigitChars[i] = c) - 1

\* The longest prefix of s made of digits.
RECURSIVE DigitPrefix(_)
DigitPrefix(s) ==
    IF s # <<>> /\ IsDigit(Head(s)) THEN <<Head(s)>> \o DigitPrefix(Tail(s)) ELSE <<>>

RECURSIVE DigitsValue(_, _)
DigitsValue(s, acc) ==
    IF s = <<>> THEN acc ELSE DigitsValue(Tail(s), acc * 10 + DigitVal(Head(s)))

\* parseFloat on texts without a fraction or an exponent: leading white space
\* is skipped, an optional sign and the longest run of digits are read, the
\* rest is ignored, and NaN is returned when no digit was read.
parseFloat(s) ==
    LET t    == TrimStart(s)
        neg  == t # <<>> /\ Head(t) = "-"
        body == IF t # <<>> /\ Head(t) \in {"-", "+"} THEN Tail(t) ELSE t
        ds   == DigitPrefix(body)
    IN  IF ds = <<>> THEN NaN
        ELSE IF neg THEN Num(0 - DigitsValue(ds, 0)) ELSE Num(DigitsValue(ds, 0))

\* The decimal digits of a natural number.
RECURSIVE NatToChars(_)
NatToChars(n) ==
    IF n < 10 THEN <<DigitChars[n + 1]>>
    ELSE NatToChars(n \div 10) \o <<DigitChars[(n % 10) + 1]>>

\* number.toFixed(2) of an integer-valued number, or of NaN.
toFixed2(x) ==
    IF x.k # "num" THEN <<"N","a","N">>
    ELSE (IF x.v < 0 THEN <<"-">> ELSE <<>>)
         \o NatToChars(IF x.v < 0 THEN 0 - x.v ELSE x.v) \o <<".","0","0">>

\* Position of the first "." in s, or 0.
DotPos(s) ==
    IF \E i \in 1..Len(s) : s[i] = "."
    THEN CHOOSE i \in 1..Len(s) : s[i] = "." /\ \A j \in 1..(i - 1) : s[j] # "."
    ELSE 0

\* .replace(/\d(?=(\d{3})+\.)/g, '$&,'): a comma after every digit that is
\* followed by a positive multiple of three digits and then the point.
RECURSIVE CommaFrom(_, _, _)
CommaFrom(s, i, dot) ==
    IF i > Len(s) THEN <<>>
    ELSE LET follow == dot - i - 1
             hit == /\ dot > 0
                    /\ i < dot
                    /\ IsDigit(s[i])
                    /\ follow > 0
                    /\ follow % 3 = 0
                    /\ \A j \in (i + 1)..(dot - 1) : IsDigit(s[j])
         IN  (IF hit THEN <<s[i], ",">> ELSE <<s[i]>>) \o CommaFrom(s, i + 1, dot)

formatCurrency(x) ==
    LET f == toFixed2(x) IN <<"$">> \o CommaFrom(f, 1, DotPos(f))

\* -------------------------------------------------------- localStorage
Absent      == [k |-> "absent", s |-> "", v |-> <<>>]
Text(s)     == [k |-> "text", s |-> s, v |-> <<>>]
JsonText(v) == [k |-> "json", s |-> "", v |-> v]
\* a stored text that is not JSON
CorruptText == Text("{bad")

getItem(store, key) == store[key]

\* setItem that empties the storage before it writes.
setItem_clears(store, key, val) ==
    [k \in DOMAIN store |-> IF k = key THEN val ELSE Absent]

setItem(store, key, val) == [store EXCEPT ![key] = val]

\* JSON.stringify of one number: NaN is written as null.
JSONNumber(x) == IF x.k = "num" THEN x ELSE Null

JSONRecord(t) == [t EXCEPT !.amount = JSONNumber(t.amount)]

\* JSON.stringify(transactions)
JSONstringify(txs) == JsonText([i \in 1..Len(txs) |-> JSONRecord(txs[i])])

\* JSON.parse throws a SyntaxError on a text that is not JSON.
JSONparseThrows(val) == val.k = "text"

\* JSON.parse(val) || [] when it does not throw: null when the key is absent.
ParseOrEmpty(val) == IF val.k = "json" THEN val.v ELSE <<>>

\* --------------------------------------------------------------- state
VARIABLES
    transactions,   \* the in-memory list (let transactions)
    localStorage,   \* the two keys the page uses: "transactions" and "theme"
    dataTheme,      \* the data-theme attribute of the document element, or "none"
    btnText,        \* themeSwitcherBtn.innerText
    listEl,         \* the children of transactionListEl
    summaryEl,      \* the texts of balanceEl, incomeEl and expenseEl
    loaded,         \* the script ran to its end: both listeners are registered
    ev              \* the last handler that ran, what it was given and what it did

vars == <<transactions, localStorage, dataTheme, btnText, listEl, summaryEl,
          loaded, ev>>

\* What the markup shows before the script has written anything.
Markup == <<"m","a","r","k","u","p">>

\* A text with no character other than white space.
IsBlank(s) == \A i \in 1..Len(s) : s[i] = " "

\* ev: which handler ran last (op), the id deleteTransaction was given, whether
\* the submitted title and amount were blank, and whether the handler called
\* alert, setItem('transactions', ..) and setItem('theme', ..).
Event(op, id, title, amount, alerted, wroteTx, wroteTheme) ==
    [op |-> op, id |-> id, titleBlank |-> IsBlank(title), amountBlank |-> IsBlank(amount),
     alerted |-> alerted, wroteTx |-> wroteTx, wroteTheme |-> wroteTheme]

\* ----------------------------------------------------------- rendering
\* addTransactionToDOM: the list item built for one transaction.
addTransactionToDOM(t) ==
    [class  |-> IF GtZero(t.amount) THEN "income" ELSE "expense",
     title  |-> t.title,
     date   |-> t.date,
     amount |-> (IF GtZero(t.amount) THEN <<"+">> ELSE <<"-">>)
                    \o formatCurrency(MathAbs(t.amount)),
     delete |-> t.id]

\* acc += item
AddNum(acc, item) ==
    IF acc.k = "nan" \/ item.k = "nan" THEN NaN ELSE Num(acc.v + item.v)

\* arr.reduce((acc, item) => (acc += item), 0)
RECURSIVE ReduceFrom(_, _)
ReduceFrom(arr, acc) ==
    IF arr = <<>> THEN acc ELSE ReduceFrom(Tail(arr), AddNum(acc, Head(arr)))

\* The three totals updateSummary computes.
SummaryTotals(txs) ==
    LET amounts      == [i \in 1..Len(txs) |-> txs[i].amount]
        totalIncome  == ReduceFrom(SelectSeq(amounts, GtZero), Num(0))
        totalExpense == ReduceFrom(SelectSeq(amounts, LtZero), Num(0))
    IN  [income  |-> totalIncome,
         expense |-> totalExpense,
         balance |-> AddNum(totalIncome, totalExpense)]

\* updateSummary: the texts written to the three summary cards.
updateSummary(txs) ==
    LET t == SummaryTotals(txs)
    IN  [balance |-> formatCurrency(t.balance),
         income  |-> formatCurrency(t.income),
         expense |-> formatCurrency(MathAbs(t.expense))]

\* init: the list is cleared and rebuilt, the summary recomputed.
init(txs) ==
    [list    |-> [i \in 1..Len(txs) |-> addTransactionToDOM(txs[i])],
     summary |-> updateSummary(txs)]

\* --------------------------------------------------------------- theme
\* applyTheme: the attribute and the button text for a theme string.
applyTheme(theme) ==
    IF theme = "dark" THEN [attr |-> "dark", btn |-> "sun"]
    ELSE [attr |-> "none", btn |-> "moon"]

\* localStorage.getItem('theme') || 'light'
savedTheme(store) ==
    LET val == getItem(store, "theme")
    IN  IF val.k = "text" /\ val.s # "" THEN val.s ELSE "light"

\* A toggle that always chooses dark.
newTheme_alwaysDark(currentTheme) == "dark"

\* currentTheme === 'dark' ? 'light' : 'dark'
newTheme(currentTheme) == IF currentTheme = "dark" THEN "light" ELSE "dark"

\* ---------------------------------------------------------------- load
\* The script run from its first line to its last against a given storage.
\* Line 15 runs before anything else touches the page: when JSON.parse
\* throws, the script stops there (transactions stays uninitialised, written
\* <<>> here with loaded = FALSE).
PageLoad(store) ==
    IF JSONparseThrows(getItem(store, "transactions"))
    THEN [transactions |-> <<>>, attr |-> "none", btn |-> "markup",
          list |-> <<>>, summary |-> [balance |-> Markup, income |-> Markup,
                                      expense |-> Markup],
          loaded |-> FALSE]
    ELSE LET txs == ParseOrEmpty(getItem(store, "transactions"))
             th  == applyTheme(savedTheme(store))
             r   == init(txs)
         IN  [transactions |-> txs, attr |-> th.attr, btn |-> th.btn,
              list |-> r.list, summary |-> r.summary, loaded |-> TRUE]

LoadInto(store) ==
    LET p == PageLoad(store)
    IN  /\ transactions = p.transactions
        /\ dataTheme = p.attr
        /\ btnText = p.btn
        /\ listEl = p.list
        /\ summaryEl = p.summary
        /\ loaded = p.loaded

\* First visit: no theme saved; the transactions key is absent or holds a
\* text that is not JSON.
Init ==
    /\ localStorage \in { [transactions |-> t, theme |-> Absent] :
                            t \in {Absent, CorruptText} }
    /\ LoadInto(localStorage)
    /\ ev = Event("load", 0, <<"x">>, <<"x">>, FALSE, FALSE, FALSE)

\* The page is reloaded: the script runs again against the storage as it is.
Reload ==
    /\ localStorage' = localStorage
    /\ LET p == PageLoad(localStorage)
       IN  /\ transactions' = p.transactions
           /\ dataTheme' = p.attr
           /\ btnText' = p.btn
           /\ listEl' = p.list
           /\ summaryEl' = p.summary
           /\ loaded' = p.loaded
    /\ ev' = Event("load", 0, <<"x">>, <<"x">>, FALSE, FALSE, FALSE)

\* ------------------------------------------------------ addTransaction
\* The validation without trim().
IsInvalid_noTrim(title, amount) == title = <<>> \/ amount = <<>>

\* titleInput.value.trim() === '' || amountInput.value.trim() === ''
IsInvalid(title, amount) == trim(title) = <<>> \/ trim(amount) = <<>>

\* Lines 59-65: the sign given to the parsed amount.
NormalizeAmount(type, amount) ==
    IF type = "expense" /\ GtZero(amount) THEN Negate(amount)
    ELSE IF type = "income" /\ LtZero(amount) THEN MathAbs(amount)
    ELSE amount

\* unshift in place of push.
push_unshift(arr, x) == <<x>> \o arr

\* transactions.push(transaction)
push(arr, x) == Append(arr, x)

\* The user fills in the form and submits it.
addTransaction(title, amount, type, id, date) ==
    /\ loaded
    /\ IF IsInvalid(title, amount)
       THEN /\ ev' = Event("submit", 0, title, amount, TRUE, FALSE, FALSE)
            /\ UNCHANGED <<transactions, localStorage, dataTheme, btnText,
                           listEl, summaryEl, loaded>>
       ELSE /\ Len(transactions) < MaxTx
            /\ LET transaction == [id     |-> id,
                                   title  |-> title,
                                   amount |-> NormalizeAmount(type, parseFloat(amount)),
                                   type   |-> type,
                                   date   |-> date]
                   txs == push(transactions, transaction)
                   r   == init(txs)
               IN  /\ transactions' = txs
                   /\ localStorage' = setItem(localStorage, "transactions",
                                              JSONstringify(txs))
                   /\ listEl' = r.list
                   /\ summaryEl' = r.summary
            /\ ev' = Event("submit", 0, title, amount, FALSE, TRUE, FALSE)
            /\ UNCHANGED <<dataTheme, btnText, loaded>>

\* --------------------------------------------------- deleteTransaction
\* Removal of the first match only (findIndex and splice).
RECURSIVE filterOut_firstOnly(_, _)
filterOut_firstOnly(txs, id) ==
    IF txs = <<>> THEN <<>>
    ELSE IF Head(txs).id = id THEN Tail(txs)
    ELSE <<Head(txs)>> \o filterOut_firstOnly(Tail(txs), id)

\* transactions.filter(transaction => transaction.id !== id)
filterOut(txs, id) == SelectSeq(txs, LAMBDA t : t.id # id)

deleteTransaction(id) ==
    /\ loaded
    /\ LET txs == filterOut(transactions, id)
           r   == init(txs)
       IN  /\ transactions' = txs
           /\ localStorage' = setItem(localStorage, "transactions", JSONstringify(txs))
           /\ listEl' = r.list
           /\ summaryEl' = r.summary
    /\ ev' = Event("delete", id, <<"x">>, <<"x">>, FALSE, TRUE, FALSE)
    /\ UNCHANGED <<dataTheme, btnText, loaded>>

\* --------------------------------------------------- handleThemeSwitch
handleThemeSwitch ==
    /\ loaded
    /\ LET nt == newTheme(dataTheme)
           th == applyTheme(nt)
       IN  /\ localStorage' = setItem(localStorage, "theme", Text(nt))
           /\ dataTheme' = th.attr
           /\ btnText' = th.btn
    /\ ev' = Event("toggle", 0, <<"x">>, <<"x">>, FALSE, FALSE, TRUE)
    /\ UNCHANGED <<transactions, listEl, summaryEl, loaded>>

Next ==
    \/ \E title \in TitleTexts, amount \in AmountTexts, type \in TypeValues,
          id \in IDs, date \in Dates :
          addTransaction(title, amount, type, id, date)
    \/ \E id \in IDs : deleteTransaction(id)
    \/ handleThemeSwitch
    \/ Reload

Spec == Init /\ [][Next]_vars

\* -------------------------------------------------------------- claims
AcceptedSubmit(e) == e.op = "submit" /\ ~e.titleBlank /\ ~e.amountBlank
RejectedSubmit(e) == e.op = "submit" /\ (e.titleBlank \/ e.amountBlank)

\* C1: a submission whose title and amount are both non-blank makes the list
\* exactly one longer, the new record last, the earlier records as they were
\* and in their order.
C1_AddAppendsOne ==
    [][AcceptedSubmit(ev') =>
          /\ Len(transactions') = Len(transactions) + 1
          /\ SubSeq(transactions', 1, Len(transactions)) = transactions]_vars

C1_Witness ==
    /\ AcceptedSubmit(ev)
    /\ Len(transactions) = 2
    /\ transactions[1] # transactions[2]

\* C2: every stored record of type income has amount > 0 and every stored
\* record of type expense has amount < 0, whatever was entered, 0 included.
C2_SignMatchesType ==
    \A i \in 1..Len(transactions) :
        /\ transactions[i].type = "income" => GtZero(transactions[i].amount)
        /\ transactions[i].type = "expense" => LtZero(transactions[i].amount)

\* The records of s whose id differs from id, in their order.
RECURSIVE Without(_, _)
Without(s, id) ==
    IF s = <<>> THEN <<>>
    ELSE IF Head(s).id = id THEN Without(Tail(s), id)
    ELSE <<Head(s)>> \o Without(Tail(s), id)

\* C3: after deleteTransaction(id) the list holds no record with that id and
\* exactly the records with another id, in their previous order; when no
\* record had that id the list is what it was.
C3_DeleteRemovesId ==
    [][ev'.op = "delete" =>
          /\ \A i \in 1..Len(transactions') : transactions'[i].id # ev'.id
          /\ transactions' = Without(transactions, ev'.id)
          /\ ((\A i \in 1..Len(transactions) : transactions[i].id # ev'.id)
                 => transactions' = transactions)]_vars

C3_Witness ==
    /\ ev.op = "delete"
    /\ transactions # <<>>
    /\ \A i \in 1..Len(transactions) : transactions[i].id # ev.id

Keeps(which, x) ==
    \/ which = "all"
    \/ which = "positive" /\ x.k = "num" /\ x.v >= 1
    \/ which = "negative" /\ x.k = "num" /\ x.v <= -1

\* The sum, as JS adds, of the amounts of s that are positive, negative, or any.
RECURSIVE SumWhere(_, _)
SumWhere(s, which) ==
    IF s = <<>> THEN Num(0)
    ELSE LET rest == SumWhere(SubSeq(s, 1, Len(s) - 1), which)
             last == s[Len(s)].amount
         IN  IF Keeps(which, last) THEN AddNum(rest, last) ELSE rest

\* C4: the totals of updateSummary: income is the sum of the amounts > 0,
\* expense the sum of the amounts < 0, balance is income + expense,
\* income >= 0, expense <= 0, and balance is the sum of all stored amounts.
C4_Totals ==
    loaded =>
        LET t == SummaryTotals(transactions)
        IN  /\ t.income = SumWhere(transactions, "positive")
            /\ t.expense = SumWhere(transactions, "negative")
            /\ t.balance = AddNum(t.income, t.expense)
            /\ t.income.k = "num" /\ t.income.v >= 0
            /\ t.expense.k = "num" /\ t.expense.v <= 0
            /\ t.balance = SumWhere(transactions, "all")

\* C5: after an add or a delete the transactions key holds the serialization
\* of the in-memory list, and a reload from it gives back that list.
C5_RoundTrip ==
    (AcceptedSubmit(ev) \/ ev.op = "delete") =>
        /\ getItem(localStorage, "transactions") = JSONstringify(transactions)
        /\ PageLoad(localStorage).loaded
        /\ PageLoad(localStorage).transactions = transactions

\* C6: a submission with a blank title or a blank amount alerts the user,
\* leaves the list as it was and writes nothing to storage.
C6_RejectLeavesStore ==
    [][RejectedSubmit(ev') =>
          /\ ev'.alerted
          /\ ~ev'.wroteTx
          /\ transactions' = transactions
          /\ localStorage' = localStorage]_vars

C6_Witness ==
    /\ RejectedSubmit(ev)
    /\ ev.titleBlank
    /\ ~ev.amountBlank
    /\ ev.alerted
    /\ transactions # <<>>

\* C7: a load that finds the transactions key absent or unparseable ends with
\* an empty list, the theme applied, the list rendered and both listeners
\* registered.
C7_LoadFallsBack ==
    (ev.op = "load" /\ getItem(localStorage, "transactions").k # "json") =>
        /\ loaded
        /\ transactions = <<>>
        /\ listEl = <<>>
        /\ btnText \in {"sun", "moon"}

AppliedTheme == IF dataTheme = "dark" THEN "dark" ELSE "light"

PersistedTheme(store) == IF store["theme"] = Absent THEN "light" ELSE store["theme"].s

\* C8: the applied theme is always the persisted one (absent counts as
\* light), a toggle flips it and stores the new one, so that the first toggle
\* stores "dark", and a reload applies what is stored.
C8_ThemePersists ==
    /\ [](AppliedTheme = PersistedTheme(localStorage))
    /\ [][/\ ev'.op = "toggle" =>
                /\ AppliedTheme' # AppliedTheme
                /\ localStorage'["theme"] = Text(AppliedTheme')
                /\ (localStorage["theme"] = Absent => localStorage'["theme"] = Text("dark"))
          /\ ev'.op = "load" => AppliedTheme' = PersistedTheme(localStorage)]_vars

C8_Witness ==
    /\ ev.op = "load"
    /\ loaded
    /\ dataTheme = "dark"
    /\ localStorage["theme"] = Text("dark")

\* C9: the ids of the stored records are pairwise distinct.
C9_UniqueIds ==
    \A i, j \in 1..Len(transactions) :
        i # j => transactions[i].id # transactions[j].id

\* C10: a toggle leaves the list and the transactions key as they were; a
\* submission, accepted or not, and a delete leave the applied theme and the
\* theme key as they were.
C10_ThemeLedgerFrame ==
    [][/\ ev'.op = "toggle" =>
             /\ transactions' = transactions
             /\ localStorage'["transactions"] = localStorage["transactions"]
       /\ ev'.op \in {"submit", "delete"} =>
             /\ dataTheme' = dataTheme
             /\ btnText' = btnText
             /\ localStorage'["theme"] = localStorage["theme"]]_vars

C10_Witness ==
    /\ ev.op = "toggle"
    /\ transactions # <<>>
    /\ dataTheme = "dark"

====
